---- MODULE Spec2Model ----
(***************************************************************************)
(* A model of mortar-luigi's two task helpers:                             *)
(*   - mortar/luigi/redshift.py: CopyPigOutputToRedshiftTask and the       *)
(*     translation get_column_definitions_from_pig_schema;                 *)
(*   - mortar/luigi/s3transfer.py: S3TransferTask.run and its two          *)
(*     directions LocalToS3Task and S3ToLocalTask.                         *)
(* Strings that the code splits or joins are sequences of one-character    *)
(* strings; file paths, which the code only concatenates, are strings.     *)
(***************************************************************************)
EXTENDS Integers, Sequences, FiniteSets, TLC

VARIABLES
    \* ---- the column name composition (redshift.py lines 115-116)
    fname,        \* f['name'], a sequence of characters
    adepth,       \* alias_depth
    colName,      \* the composed column name
    npc,          \* "input" before the composition, "named" after it
    \* ---- CopyPigOutputToRedshiftTask.run
    doc,          \* the content of the schema file: [kind, fields]
    pig_alias_depth,
    rpc,          \* the position of run
    schemaFound,  \* what s3Client.exists answered: "unknown", "yes" or "no"
    fields,       \* the parsed field list (json_schema['fields'])
    idx,          \* the index of the field the loop is at (1-based)
    result,       \* the local list of get_column_definitions_from_pig_schema
    redshift_schema, \* the local list of _set_columns
    keysUsed,     \* what table_keys() returned
    columns,      \* self.columns
    columnsSet,   \* whether self.columns has been assigned by _set_columns
    translated,   \* whether get_column_definitions_from_pig_schema was entered
    loadStarted,  \* whether S3CopyToTable.run was called
    loadColumns,  \* self.columns as S3CopyToTable.run found it
    rerror,       \* the exception run ended with, or NoError
    \* ---- S3TransferTask.run
    taskClass,    \* "LocalToS3Task" or "S3ToLocalTask"
    s3_path, local_path, file_name,
    atomicDest,   \* whether the output target publishes its content on close only
    fs,           \* [store, path] -> [exists, data]
    fs0,          \* fs when the current run was invoked
    tpc,          \* the position of run
    rOpen, wOpen, \* whether r and w are open
    buf,          \* the value of r.read()
    tmp,          \* what an atomic output target holds before close
    trace,        \* the target operations the current run performed
    failedAt,     \* the operation of the copy step that raised, or "none"
    outcome,      \* "running", "success" or "failed"
    terror,       \* the exception run ended with, or "none"
    runNo,        \* the number of the current run
    history       \* how the earlier runs ended: "skipped", "copied" or "failed"

nameVars == <<fname, adepth, colName, npc>>
redshiftVars == <<doc, pig_alias_depth, rpc, schemaFound, fields, idx, result, redshift_schema,
                  keysUsed, columns, columnsSet, translated, loadStarted,
                  loadColumns, rerror>>
transferVars == <<taskClass, s3_path, local_path, file_name, atomicDest, fs, fs0,
                  tpc, rOpen, wOpen, buf, tmp, trace, failedAt, outcome, terror,
                  runNo, history>>
vars == <<nameVars, redshiftVars, transferVars>>

(***************************************************************************)
(* Bounds of the model.                                                    *)
(***************************************************************************)
MaxNameLen == 7     \* longest field name explored by the name composition
MaxDepth == 2       \* largest alias depth explored
MaxFields == 2      \* longest field list of a schema document
MaxKeys == 2        \* longest list returned by table_keys
MaxBytes == 2       \* longest file content
MaxRuns == 2        \* how many times the scheduler invokes run

Min(a, b) == IF a <= b THEN a ELSE b
Max(a, b) == IF a >= b THEN a ELSE b

\* All sequences over S of length at most n.
SeqsUpTo(S, n) == UNION {[1..k -> S] : k \in 0..n}

(***************************************************************************)
(* Python's string and list operations used by lines 115-116.              *)
(***************************************************************************)
RECURSIVE SplitAcc(_, _, _, _)
SplitAcc(s, i, cur, acc) ==
    IF i > Len(s) THEN Append(acc, cur)
    ELSE IF i < Len(s) /\ s[i] = ":" /\ s[i + 1] = ":"
         THEN SplitAcc(s, i + 2, <<>>, Append(acc, cur))
         ELSE SplitAcc(s, i + 1, Append(cur, s[i]), acc)

\* str.split("::"): the pieces between the non-overlapping occurrences of
\* "::", found left to right; never empty.
SplitAlias(s) == SplitAcc(s, 1, <<>>, <<>>)

RECURSIVE JoinUnderscore(_)
\* "_".join(list)
JoinUnderscore(segs) ==
    IF Len(segs) = 0 THEN <<>>
    ELSE IF Len(segs) = 1 THEN segs[1]
    ELSE segs[1] \o <<"_">> \o JoinUnderscore(Tail(segs))

\* list[start:] with Python's treatment of a negative or too large start.
PySliceFrom(l, start) ==
    LET n == Len(l)
        from == IF start < 0 THEN Max(n + start, 0) ELSE Min(start, n)
    IN SubSeq(l, from + 1, n)

\* A plausible slip: alias_depth segments kept instead of alias_depth + 1.
ColumnNameOffByOne(name, alias_depth) ==
    LET split_name == SplitAlias(name)
    IN JoinUnderscore(PySliceFrom(split_name, -Min(alias_depth, Len(split_name))))

\* A plausible slip: the outermost segments kept, split_name[:k].
ColumnNameOutermost(name, alias_depth) ==
    LET split_name == SplitAlias(name)
    IN JoinUnderscore(SubSeq(split_name, 1, Min(alias_depth + 1, Len(split_name))))

\* split_name = f['name'].split("::")
\* name = "_".join(split_name[-min(alias_depth+1, len(split_name)):])
ColumnName(name, alias_depth) ==
    LET split_name == SplitAlias(name)
    IN JoinUnderscore(PySliceFrom(split_name, -Min(alias_depth + 1, Len(split_name))))

(***************************************************************************)
(* The column name composition on its own: the inputs are drawn by Init,   *)
(* ComposeName applies lines 115-116 to them.                              *)
(***************************************************************************)
NameChars == {"a", ":", "_"}
FieldNameInputs == SeqsUpTo(NameChars, MaxNameLen)
\* luigi.IntParameter accepts any integer; -1 stands for the negative ones.
AliasDepths == -1..MaxDepth

NameIdle ==
    /\ fname = <<>>
    /\ adepth = 1
    /\ colName = <<>>
    /\ npc = "idle"

NameInit ==
    /\ fname \in FieldNameInputs
    /\ adepth \in AliasDepths
    /\ colName = <<>>
    /\ npc = "input"

ComposeName ==
    /\ npc = "input"
    /\ colName' = ColumnName(fname, adepth)
    /\ npc' = "named"
    /\ UNCHANGED <<fname, adepth>>
    /\ UNCHANGED <<redshiftVars, transferVars>>

(***************************************************************************)
(* get_column_definitions_from_pig_schema and CopyPigOutputToRedshiftTask. *)
(***************************************************************************)
PIG_TYPE_TO_REDSHIFT_TYPE ==
    (5 :> "boolean") @@ (10 :> "integer") @@ (15 :> "bigint") @@
    (20 :> "float8") @@ (25 :> "float8") @@ (30 :> "timestamp") @@
    (50 :> "varchar(max)") @@ (55 :> "varchar(max)") @@ (65 :> "bigint")

NoError == [kind |-> "none", code |-> 0]
Raised(kind) == [kind |-> kind, code |-> 0]
\* Exception("Unsupported Pig type: %s" % code)
UnsupportedType(code) == [kind |-> "UnsupportedType", code |-> code]

\* The schema documents explored: field names, type codes (two of them
\* absent from the table) and descriptors, a descriptor being a dict that
\* may lack either key.
FieldNames == {<<"a">>, <<"b", ":", ":", "a">>, <<"c", ":", ":", "b", ":", ":", "a">>}
TypeCodes == {10, 25, 998, 999}
FieldDescriptors ==
    [name : FieldNames, type : TypeCodes] \cup [type : TypeCodes] \cup [name : FieldNames]
SchemaDocuments ==
    {[kind |-> "json", fields |-> fs_] : fs_ \in SeqsUpTo(FieldDescriptors, MaxFields)}
    \cup {[kind |-> "notjson", fields |-> <<>>], [kind |-> "nofields", fields |-> <<>>]}
KeyPairs == {<< <<"P", "K">>, "(a)" >>, << <<"U">>, "(b)" >>}
KeyLists == SeqsUpTo(KeyPairs, MaxKeys)

\* A plausible slip: a type code the table lacks is given a guessed type
\* instead of ending the translation.
TranslateFieldGuessing(f, alias_depth) ==
    IF "name" \notin DOMAIN f \/ "type" \notin DOMAIN f
    THEN [ok |-> FALSE, col |-> <<>>,
          error |-> IF "type" \in DOMAIN f THEN UnsupportedType(f.type)
                    ELSE Raised("KeyError")]
    ELSE [ok |-> TRUE,
          col |-> <<ColumnName(f.name, alias_depth),
                    IF f.type \in DOMAIN PIG_TYPE_TO_REDSHIFT_TYPE
                    THEN PIG_TYPE_TO_REDSHIFT_TYPE[f.type] ELSE "varchar(max)">>,
          error |-> NoError]

\* The body of the loop, lines 114-120: the pair to append, or the
\* exception raised.  A KeyError of f['name'], of f['type'] or of the table
\* lookup enters the handler, which evaluates f['type'] again.
TranslateField(f, alias_depth) ==
    IF "name" \in DOMAIN f /\ "type" \in DOMAIN f
       /\ f.type \in DOMAIN PIG_TYPE_TO_REDSHIFT_TYPE
    THEN [ok |-> TRUE,
          col |-> <<ColumnName(f.name, alias_depth), PIG_TYPE_TO_REDSHIFT_TYPE[f.type]>>,
          error |-> NoError]
    ELSE [ok |-> FALSE, col |-> <<>>,
          error |-> IF "type" \in DOMAIN f THEN UnsupportedType(f.type)
                    ELSE Raised("KeyError")]

RedshiftIdle ==
    /\ doc = [kind |-> "notjson", fields |-> <<>>]
    /\ pig_alias_depth = 1
    /\ rpc = "idle"
    /\ schemaFound = "unknown"
    /\ fields = <<>>
    /\ idx = 0
    /\ result = <<>>
    /\ redshift_schema = <<>>
    /\ keysUsed = <<>>
    /\ columns = <<>>
    /\ columnsSet = FALSE
    /\ translated = FALSE
    /\ loadStarted = FALSE
    /\ loadColumns = <<>>
    /\ rerror = NoError

RedshiftInit ==
    /\ doc \in SchemaDocuments
    /\ pig_alias_depth \in AliasDepths
    /\ rpc = "start"
    /\ schemaFound = "unknown"
    /\ fields = <<>>
    /\ idx = 0
    /\ result = <<>>
    /\ redshift_schema = <<>>
    /\ keysUsed = <<>>
    /\ columns = <<>>
    /\ columnsSet = FALSE
    /\ translated = FALSE
    /\ loadStarted = FALSE
    /\ loadColumns = <<>>
    /\ rerror = NoError

RunFails(e) ==
    /\ rerror' = e
    /\ rpc' = "failed"

\* A plausible slip: a missing schema file is logged and the run goes on to
\* the load with the columns it has.
ReadSchemaMissingIgnored ==
    /\ rpc = "start"
    /\ schemaFound' = "no"
    /\ rpc' = "load"
    /\ UNCHANGED <<doc, pig_alias_depth, fields, idx, result, redshift_schema,
                   keysUsed, columns, columnsSet, translated, loadStarted,
                   loadColumns, rerror>>
    /\ UNCHANGED <<nameVars, transferVars>>

\* _read_schema_file, lines 78-79: exists() answers no; the raise evaluates
\* the undefined name s3_schema_path, so a NameError is what is raised.
ReadSchemaMissing ==
    /\ rpc = "start"
    /\ schemaFound' = "no"
    /\ RunFails(Raised("NameError"))
    /\ UNCHANGED <<doc, pig_alias_depth, fields, idx, result, redshift_schema,
                   keysUsed, columns, columnsSet, translated, loadStarted,
                   loadColumns>>
    /\ UNCHANGED <<nameVars, transferVars>>

\* _read_schema_file, lines 78-84: exists() answers yes, then get_key or
\* get_contents_as_string raises (the key has gone, the store fails).
ReadSchemaFails ==
    /\ rpc = "start"
    /\ schemaFound' = "yes"
    /\ RunFails(Raised("ReadError"))
    /\ UNCHANGED <<doc, pig_alias_depth, fields, idx, result, redshift_schema,
                   keysUsed, columns, columnsSet, translated, loadStarted,
                   loadColumns>>
    /\ UNCHANGED <<nameVars, transferVars>>

\* _read_schema_file, lines 78-84: the content of the schema file is returned.
ReadSchemaOk ==
    /\ rpc = "start"
    /\ schemaFound' = "yes"
    /\ rpc' = "parse"
    /\ UNCHANGED <<doc, pig_alias_depth, fields, idx, result, redshift_schema,
                   keysUsed, columns, columnsSet, translated, loadStarted,
                   loadColumns, rerror>>
    /\ UNCHANGED <<nameVars, transferVars>>

\* Lines 109-112: json.loads raises a ValueError on a document that is not
\* JSON, json_schema['fields'] a KeyError on one without a field list.
ParseSchema ==
    /\ rpc = "parse"
    /\ translated' = TRUE
    /\ IF doc.kind = "notjson"
       THEN RunFails(Raised("ValueError")) /\ UNCHANGED <<fields, idx, result>>
       ELSE IF doc.kind = "nofields"
       THEN RunFails(Raised("KeyError")) /\ UNCHANGED <<fields, idx, result>>
       ELSE /\ fields' = doc.fields
            /\ idx' = 1
            /\ result' = <<>>
            /\ rpc' = "loop"
            /\ UNCHANGED rerror
    /\ UNCHANGED <<doc, pig_alias_depth, schemaFound, redshift_schema, keysUsed,
                   columns, columnsSet, loadStarted, loadColumns>>
    /\ UNCHANGED <<nameVars, transferVars>>

\* A plausible slip: result.insert(0, ...) for result.append(...).
LoopStepPrepending ==
    /\ rpc = "loop"
    /\ idx <= Len(fields)
    /\ LET r == TranslateField(fields[idx], pig_alias_depth)
       IN IF r.ok
          THEN /\ result' = <<r.col>> \o result
               /\ idx' = idx + 1
               /\ UNCHANGED <<rpc, rerror>>
          ELSE /\ RunFails(r.error)
               /\ UNCHANGED <<result, idx>>
    /\ UNCHANGED <<doc, pig_alias_depth, schemaFound, fields, redshift_schema,
                   keysUsed, columns, columnsSet, translated, loadStarted,
                   loadColumns>>
    /\ UNCHANGED <<nameVars, transferVars>>

\* One iteration of the loop of lines 113-120.
LoopStep ==
    /\ rpc = "loop"
    /\ idx <= Len(fields)
    /\ LET r == TranslateField(fields[idx], pig_alias_depth)
       IN IF r.ok
          THEN /\ result' = Append(result, r.col)
               /\ idx' = idx + 1
               /\ UNCHANGED <<rpc, rerror>>
          ELSE /\ RunFails(r.error)
               /\ UNCHANGED <<result, idx>>
    /\ UNCHANGED <<doc, pig_alias_depth, schemaFound, fields, redshift_schema,
                   keysUsed, columns, columnsSet, translated, loadStarted,
                   loadColumns>>
    /\ UNCHANGED <<nameVars, transferVars>>

\* Line 122 and line 71: the list is returned to _set_columns.
TranslateReturn ==
    /\ rpc = "loop"
    /\ idx > Len(fields)
    /\ redshift_schema' = result
    /\ rpc' = "keys"
    /\ UNCHANGED <<doc, pig_alias_depth, schemaFound, fields, idx, result, keysUsed,
                   columns, columnsSet, translated, loadStarted, loadColumns, rerror>>
    /\ UNCHANGED <<nameVars, transferVars>>

\* Line 72: redshift_schema += self.table_keys(), table_keys being whatever
\* the subclass returns.
AppendTableKeys ==
    /\ rpc = "keys"
    /\ \E keys \in KeyLists :
          /\ keysUsed' = keys
          /\ redshift_schema' = redshift_schema \o keys
    /\ rpc' = "assign"
    /\ UNCHANGED <<doc, pig_alias_depth, schemaFound, fields, idx, result, columns,
                   columnsSet, translated, loadStarted, loadColumns, rerror>>
    /\ UNCHANGED <<nameVars, transferVars>>

\* Lines 73-74: self.columns = redshift_schema
AssignColumns ==
    /\ rpc = "assign"
    /\ columns' = redshift_schema
    /\ columnsSet' = TRUE
    /\ rpc' = "load"
    /\ UNCHANGED <<doc, pig_alias_depth, schemaFound, fields, idx, result,
                   redshift_schema, keysUsed, translated, loadStarted, loadColumns,
                   rerror>>
    /\ UNCHANGED <<nameVars, transferVars>>

\* Line 67: the parent's run, the bulk load, reads self.columns.
SuperRun ==
    /\ rpc = "load"
    /\ loadStarted' = TRUE
    /\ loadColumns' = columns
    /\ rpc' = "done"
    /\ UNCHANGED <<doc, pig_alias_depth, schemaFound, fields, idx, result,
                   redshift_schema, keysUsed, columns, columnsSet, translated,
                   rerror>>
    /\ UNCHANGED <<nameVars, transferVars>>

(***************************************************************************)
(* S3TransferTask.  A target is a place in one of two stores; what open,   *)
(* read, write and close do belongs to the target classes of the host      *)
(* framework: each may raise, and an output target either writes in place  *)
(* or publishes what was written when it is closed (atomicDest).           *)
(***************************************************************************)
LocalDirs == {"/tmp"}
S3Dirs == {"s3://b"}
FileNames == {"f", "g"}
Bytes == {0, 1}
Contents == SeqsUpTo(Bytes, MaxBytes)

LocalTarget(path) == [store |-> "local", path |-> path]
S3Target(path) == [store |-> "s3", path |-> path]

Locs ==
    {LocalTarget(d \o "/" \o n) : d \in LocalDirs, n \in FileNames}
    \cup {S3Target(d \o "/" \o n) : d \in S3Dirs, n \in FileNames}

Absent == [exists |-> FALSE, data |-> <<>>]
Present(d) == [exists |-> TRUE, data |-> d]
FileStates == {Absent} \cup {Present(d) : d \in Contents}

\* LocalToS3Task.input_target, S3ToLocalTask.input_target
input_target ==
    IF taskClass = "LocalToS3Task"
    THEN LocalTarget(local_path \o "/" \o file_name)
    ELSE S3Target(s3_path \o "/" \o file_name)

\* LocalToS3Task.output_target, S3ToLocalTask.output_target
output_target ==
    IF taskClass = "LocalToS3Task"
    THEN S3Target(s3_path \o "/" \o file_name)
    ELSE LocalTarget(local_path \o "/" \o file_name)

TransferIdle ==
    /\ taskClass = "LocalToS3Task"
    /\ s3_path = "s3://b"
    /\ local_path = "/tmp"
    /\ file_name = "f"
    /\ atomicDest = TRUE
    /\ fs = [l \in Locs |-> Absent]
    /\ fs0 = fs
    /\ tpc = "idle"
    /\ rOpen = FALSE
    /\ wOpen = FALSE
    /\ buf = <<>>
    /\ tmp = <<>>
    /\ trace = <<>>
    /\ failedAt = "none"
    /\ outcome = "running"
    /\ terror = "none"
    /\ runNo = 0
    /\ history = <<>>

\* The files of the task's own name hold anything; the other files are
\* bystanders, absent or holding one fixed content.
TransferInit ==
    /\ taskClass \in {"LocalToS3Task", "S3ToLocalTask"}
    /\ s3_path \in S3Dirs
    /\ local_path \in LocalDirs
    /\ file_name \in FileNames
    /\ atomicDest \in BOOLEAN
    /\ fs \in [Locs -> FileStates]
    /\ \A l \in Locs \ {input_target, output_target} : fs[l] \in {Absent, Present(<<1>>)}
    /\ fs0 = fs
    /\ tpc = "check"
    /\ rOpen = FALSE
    /\ wOpen = FALSE
    /\ buf = <<>>
    /\ tmp = <<>>
    /\ trace = <<>>
    /\ failedAt = "none"
    /\ outcome = "running"
    /\ terror = "none"
    /\ runNo = 1
    /\ history = <<>>

params == <<taskClass, s3_path, local_path, file_name, atomicDest>>

\* An operation of the try block raises: control goes to the except clause.
CopyFails(op) ==
    /\ failedAt' = op
    /\ tpc' = "handler"

\* Line 36, the destination exists: run returns at once.
SkipExisting ==
    /\ tpc = "check"
    /\ fs[output_target].exists
    /\ trace' = Append(trace, "exists")
    /\ tpc' = "done"
    /\ outcome' = "success"
    /\ UNCHANGED <<params, fs, fs0, rOpen, wOpen, buf, tmp, failedAt, terror, runNo,
                   history>>
    /\ UNCHANGED <<nameVars, redshiftVars>>

\* A plausible slip: the copy is made whether or not the destination exists.
EnterCopyUnchecked ==
    /\ tpc = "check"
    /\ trace' = Append(trace, "exists")
    /\ tpc' = "open_r"
    /\ UNCHANGED <<params, fs, fs0, rOpen, wOpen, buf, tmp, failedAt, outcome, terror,
                   runNo, history>>
    /\ UNCHANGED <<nameVars, redshiftVars>>

\* Line 36, the destination does not exist: the try block is entered.
EnterCopy ==
    /\ tpc = "check"
    /\ ~fs[output_target].exists
    /\ trace' = Append(trace, "exists")
    /\ tpc' = "open_r"
    /\ UNCHANGED <<params, fs, fs0, rOpen, wOpen, buf, tmp, failedAt, outcome, terror,
                   runNo, history>>
    /\ UNCHANGED <<nameVars, redshiftVars>>

\* Line 38: r = self.input_target().open('r'); raises when the source is
\* absent, and may raise otherwise.
OpenSource ==
    /\ tpc = "open_r"
    /\ trace' = Append(trace, "open_r")
    /\ \E ok \in BOOLEAN :
          IF ok /\ fs[input_target].exists
          THEN rOpen' = TRUE /\ tpc' = "open_w" /\ UNCHANGED failedAt
          ELSE CopyFails("open_r") /\ UNCHANGED rOpen
    /\ UNCHANGED <<params, fs, fs0, wOpen, buf, tmp, outcome, terror, runNo, history>>
    /\ UNCHANGED <<nameVars, redshiftVars>>

\* Line 39: w = self.output_target().open('w'); a target that writes in
\* place creates the empty destination.
OpenDest ==
    /\ tpc = "open_w"
    /\ trace' = Append(trace, "open_w")
    /\ \E ok \in BOOLEAN :
          IF ok
          THEN /\ wOpen' = TRUE
               /\ tpc' = "read"
               /\ tmp' = <<>>
               /\ fs' = IF atomicDest THEN fs
                        ELSE [fs EXCEPT ![output_target] = Present(<<>>)]
               /\ UNCHANGED failedAt
          ELSE CopyFails("open_w") /\ UNCHANGED <<wOpen, tmp, fs>>
    /\ UNCHANGED <<params, fs0, rOpen, buf, outcome, terror, runNo, history>>
    /\ UNCHANGED <<nameVars, redshiftVars>>

\* Line 40, the argument: r.read(), the whole source.
ReadSource ==
    /\ tpc = "read"
    /\ trace' = Append(trace, "read")
    /\ \E ok \in BOOLEAN :
          IF ok
          THEN buf' = fs[input_target].data /\ tpc' = "write" /\ UNCHANGED failedAt
          ELSE CopyFails("read") /\ UNCHANGED buf
    /\ UNCHANGED <<params, fs, fs0, rOpen, wOpen, tmp, outcome, terror, runNo, history>>
    /\ UNCHANGED <<nameVars, redshiftVars>>

\* What the output target holds once d has been written to it.
Written(d) ==
    /\ tmp' = d
    /\ fs' = IF atomicDest THEN fs ELSE [fs EXCEPT ![output_target] = Present(d)]

\* A plausible slip: the last byte is not written.
WriteDestShort ==
    /\ tpc = "write"
    /\ trace' = Append(trace, "write")
    /\ Written(SubSeq(buf, 1, Len(buf) - 1))
    /\ tpc' = "close"
    /\ UNCHANGED <<params, fs0, rOpen, wOpen, buf, failedAt, outcome, terror, runNo,
                   history>>
    /\ UNCHANGED <<nameVars, redshiftVars>>

\* Line 40: w.write(...); a write that raises has written some prefix.
WriteDest ==
    /\ tpc = "write"
    /\ trace' = Append(trace, "write")
    /\ \/ Written(buf) /\ tpc' = "close" /\ UNCHANGED failedAt
       \/ \E n \in 0..Len(buf) : Written(SubSeq(buf, 1, n)) /\ CopyFails("write")
    /\ UNCHANGED <<params, fs0, rOpen, wOpen, buf, outcome, terror, runNo, history>>
    /\ UNCHANGED <<nameVars, redshiftVars>>

\* Line 41: w.close(); an atomic target publishes its content here.
CloseDest ==
    /\ tpc = "close"
    /\ trace' = Append(trace, "close")
    /\ \E ok \in BOOLEAN :
          IF ok
          THEN /\ wOpen' = FALSE
               /\ fs' = IF atomicDest THEN [fs EXCEPT ![output_target] = Present(tmp)]
                        ELSE fs
               /\ tpc' = "done"
               /\ outcome' = "success"
               /\ UNCHANGED failedAt
          ELSE CopyFails("close") /\ UNCHANGED <<wOpen, fs, outcome>>
    /\ UNCHANGED <<params, fs0, rOpen, buf, tmp, terror, runNo, history>>
    /\ UNCHANGED <<nameVars, redshiftVars>>

\* A plausible slip: an except clause that ends normally.
HandlerSwallows ==
    /\ tpc = "handler"
    /\ tpc' = "done"
    /\ outcome' = "success"
    /\ UNCHANGED <<params, fs, fs0, rOpen, wOpen, buf, tmp, trace, failedAt, terror,
                   runNo, history>>
    /\ UNCHANGED <<nameVars, redshiftVars>>

\* Lines 42-44: the except clause.  self.output() is a list (line 25), so
\* self.output().exists raises an AttributeError before exists or remove is
\* called on anything: nothing is removed and the AttributeError leaves run.
Handler ==
    /\ tpc = "handler"
    /\ tpc' = "done"
    /\ outcome' = "failed"
    /\ terror' = "AttributeError"
    /\ UNCHANGED <<params, fs, fs0, rOpen, wOpen, buf, tmp, trace, failedAt, runNo,
                   history>>
    /\ UNCHANGED <<nameVars, redshiftVars>>

\* How a finished run ended.
Ending ==
    IF outcome = "failed" THEN "failed"
    ELSE IF trace = <<"exists">> THEN "skipped" ELSE "copied"

\* The scheduler invokes run again on the same task.
RunAgain ==
    /\ tpc = "done"
    /\ runNo < MaxRuns
    /\ runNo' = runNo + 1
    /\ history' = Append(history, Ending)
    /\ fs0' = fs
    /\ tpc' = "check"
    /\ rOpen' = FALSE
    /\ wOpen' = FALSE
    /\ buf' = <<>>
    /\ tmp' = <<>>
    /\ trace' = <<>>
    /\ failedAt' = "none"
    /\ outcome' = "running"
    /\ terror' = "none"
    /\ UNCHANGED <<params, fs>>
    /\ UNCHANGED <<nameVars, redshiftVars>>

(***************************************************************************)
(* The specifications.                                                     *)
(***************************************************************************)
InitName == NameInit /\ RedshiftIdle /\ TransferIdle
NextName == ComposeName
SpecName == InitName /\ [][NextName]_vars

InitRedshift == NameIdle /\ RedshiftInit /\ TransferIdle
NextRedshift ==
    \/ ReadSchemaMissing
    \/ ReadSchemaFails
    \/ ReadSchemaOk
    \/ ParseSchema
    \/ LoopStep
    \/ TranslateReturn
    \/ AppendTableKeys
    \/ AssignColumns
    \/ SuperRun
SpecRedshift == InitRedshift /\ [][NextRedshift]_vars

InitTransfer == NameIdle /\ RedshiftIdle /\ TransferInit
NextTransfer ==
    \/ SkipExisting
    \/ EnterCopy
    \/ OpenSource
    \/ OpenDest
    \/ ReadSource
    \/ WriteDest
    \/ CloseDest
    \/ Handler
    \/ RunAgain
SpecTransfer == InitTransfer /\ [][NextTransfer]_vars

(***************************************************************************)
(* Properties of the column name composition (SpecName).                   *)
(***************************************************************************)
Range(f) == {f[i] : i \in DOMAIN f}
Last(l) == l[Len(l)]

\* The segments of the field name, and how many the alias depth retains.
Segments == SplitAlias(fname)
Retained == Min(adepth + 1, Len(Segments))
LastSegments == SubSeq(Segments, Len(Segments) - Retained + 1, Len(Segments))

RECURSIVE ReplaceAlias(_)
\* The name with every "::" replaced by "_", left to right.
ReplaceAlias(s) ==
    IF Len(s) = 0 THEN <<>>
    ELSE IF Len(s) >= 2 /\ s[1] = ":" /\ s[2] = ":"
         THEN <<"_">> \o ReplaceAlias(SubSeq(s, 3, Len(s)))
         ELSE <<s[1]>> \o ReplaceAlias(Tail(s))

RECURSIVE SplitUnderscoreAcc(_, _, _)
SplitUnderscoreAcc(s, cur, acc) ==
    IF Len(s) = 0 THEN Append(acc, cur)
    ELSE IF s[1] = "_" THEN SplitUnderscoreAcc(Tail(s), <<>>, Append(acc, cur))
         ELSE SplitUnderscoreAcc(Tail(s), Append(cur, s[1]), acc)

\* The pieces of a column name between its "_".
Pieces(s) == SplitUnderscoreAcc(s, <<>>, <<>>)

\* C2: for an alias depth >= 0 the column name is the last
\* k = min(aliasDepth + 1, s) of the s segments of the field name joined by
\* "_"; when aliasDepth >= s - 1 it is the whole name with every "::"
\* replaced by "_".
C2_LastSegmentsJoined ==
    (npc = "named" /\ adepth >= 0) =>
        /\ Retained >= 1
        /\ colName = JoinUnderscore(LastSegments)
        /\ (adepth >= Len(Segments) - 1 => colName = ReplaceAlias(fname))

C2_Witness ==
    /\ npc = "named"
    /\ fname = <<"a", ":", ":", "a", ":", ":", "a">>
    /\ adepth = 1
    /\ colName = <<"a", "_", "a">>

\* C8, as stated: for an alias depth >= 0, splitting the column name
\* on "_" gives at most aliasDepth + 1 pieces, each a segment of the field
\* name, also when segments contain "_".
C8_AsStated ==
    (npc = "named" /\ adepth >= 0) =>
        /\ Len(Pieces(colName)) <= adepth + 1
        /\ \A i \in 1..Len(Pieces(colName)) : Pieces(colName)[i] \in Range(Segments)

\* C8, amended: for an alias depth >= 0 and a field name that holds no
\* "_", splitting the column name on "_" gives back exactly the retained
\* segments: at most aliasDepth + 1 pieces, each a segment of the field name.
C8_NoUnderscore ==
    (npc = "named" /\ adepth >= 0 /\ "_" \notin Range(fname)) =>
        /\ Len(Pieces(colName)) <= adepth + 1
        /\ Pieces(colName) = LastSegments

C8_Witness ==
    /\ npc = "named"
    /\ adepth = 1
    /\ "_" \notin Range(fname)
    /\ Len(Segments) = 3
    /\ Pieces(colName) = << <<"a">>, <<"a">> >>

(***************************************************************************)
(* Properties of CopyPigOutputToRedshiftTask (SpecRedshift).               *)
(***************************************************************************)
WellFormed(f) == "name" \in DOMAIN f /\ "type" \in DOMAIN f
Supported(f) == WellFormed(f) /\ f.type \in DOMAIN PIG_TYPE_TO_REDSHIFT_TYPE
UnknownType(f) == "type" \in DOMAIN f /\ f.type \notin DOMAIN PIG_TYPE_TO_REDSHIFT_TYPE
ValidSchema ==
    /\ doc.kind = "json"
    /\ \A i \in 1..Len(doc.fields) : Supported(doc.fields[i])
HasUnknownType ==
    /\ doc.kind = "json"
    /\ \E i \in 1..Len(doc.fields) : UnknownType(doc.fields[i])

\* C1: for a valid schema document of n fields with type codes of the
\* table and m key pairs returned by table_keys, the column list set by
\* _set_columns has n + m entries, the i-th derived from the i-th field and
\* the last m the key pairs, unmodified and in their order.
C1_FieldsThenKeys ==
    (ValidSchema /\ rpc \in {"load", "done"}) =>
        LET n == Len(doc.fields)
            m == Len(keysUsed)
        IN /\ columnsSet
           /\ Len(columns) = n + m
           /\ \A i \in 1..n :
                 columns[i] = <<ColumnName(doc.fields[i].name, pig_alias_depth),
                                PIG_TYPE_TO_REDSHIFT_TYPE[doc.fields[i].type]>>
           /\ \A j \in 1..m : columns[n + j] = keysUsed[j]

C1_Witness ==
    /\ rpc = "done"
    /\ ValidSchema
    /\ Len(doc.fields) = 2
    /\ doc.fields[1] # doc.fields[2]
    /\ Len(keysUsed) = 2
    /\ keysUsed[1] # keysUsed[2]
    /\ Len(columns) = 4
    /\ columns[1] # columns[2]

\* C3: when a field has a type code the table lacks, the translation
\* returns no list: it ends in an exception, nothing reaches _set_columns'
\* list, self.columns or the load; and when the fields before the first such
\* field are translatable, the exception is the unsupported-type error
\* naming that field's code, whatever its position.
C3_UnknownTypeAborts ==
    (translated /\ HasUnknownType) =>
        /\ rpc \in {"loop", "failed"}
        /\ redshift_schema = <<>>
        /\ ~columnsSet /\ columns = <<>> /\ ~loadStarted
        /\ (rpc = "failed" => rerror # NoError)
        /\ \A i \in 1..Len(doc.fields) :
              (/\ rpc = "failed"
               /\ UnknownType(doc.fields[i])
               /\ \A j \in 1..(i - 1) : Supported(doc.fields[j]))
              => rerror = UnsupportedType(doc.fields[i].type)

C3_Witness ==
    /\ rpc = "failed"
    /\ Len(doc.fields) = 2
    /\ Supported(doc.fields[1])
    /\ WellFormed(doc.fields[2]) /\ doc.fields[2].type = 999
    /\ Len(result) = 1
    /\ redshift_schema = <<>>
    /\ rerror = UnsupportedType(999)

\* C9: the bulk load starts only after self.columns was set from a
\* complete translation of the schema file; a schema file that does not
\* exist fails the run before the translation is entered; a run that failed
\* has neither started the load nor assigned self.columns.
C9_LoadAfterColumns ==
    /\ loadStarted =>
          /\ columnsSet /\ translated /\ schemaFound = "yes" /\ rerror = NoError
          /\ ValidSchema
          /\ loadColumns = columns
          /\ Len(loadColumns) = Len(doc.fields) + Len(keysUsed)
    /\ schemaFound = "no" =>
          rpc = "failed" /\ ~translated /\ ~loadStarted /\ ~columnsSet
    /\ rpc = "failed" =>
          rerror # NoError /\ ~loadStarted /\ ~columnsSet /\ columns = <<>>
    /\ rpc = "load" => columnsSet

C9_Witness ==
    /\ loadStarted
    /\ schemaFound = "yes"
    /\ Len(doc.fields) = 2
    /\ Len(loadColumns) = 3

\* C10, as stated: an unsupported-type error is raised only for a type
\* code the table lacks; it never names a code the table supports.
C10_AsStated ==
    rerror.kind = "UnsupportedType" => rerror.code \notin DOMAIN PIG_TYPE_TO_REDSHIFT_TYPE

(***************************************************************************)
(* Properties of S3TransferTask.run (SpecTransfer).                        *)
(***************************************************************************)
\* The two places of a transfer, spelled out per direction.
LocalPlace == [store |-> "local", path |-> local_path \o "/" \o file_name]
RemotePlace == [store |-> "s3", path |-> s3_path \o "/" \o file_name]
Source == IF taskClass = "LocalToS3Task" THEN LocalPlace ELSE RemotePlace
Destination == IF taskClass = "LocalToS3Task" THEN RemotePlace ELSE LocalPlace

\* C4: a run invoked with the destination present is a no-op ending in
\* success: nothing is opened, read or written and no file changes; so a run
\* after a successful run changes nothing.
C4_ExistingDestinationSkipped ==
    /\ (tpc # "idle" /\ fs0[Destination].exists) =>
          /\ fs = fs0
          /\ ~rOpen /\ ~wOpen
          /\ trace \in {<<>>, <<"exists">>}
          /\ failedAt = "none"
          /\ tpc \in {"check", "done"}
          /\ (tpc = "done" => outcome = "success" /\ terror = "none")
    /\ (runNo >= 2 /\ Last(history) # "failed") =>
          /\ fs0[Destination].exists
          /\ fs = fs0

C4_Witness ==
    /\ runNo = 2
    /\ history = <<"copied">>
    /\ tpc = "done"
    /\ outcome = "success"
    /\ trace = <<"exists">>
    /\ Len(fs[Destination].data) = 2

\* C5, as stated: a run invoked with the destination absent in which
\* an operation of the copy step raised returns with the destination absent.
C5_AsStated ==
    (tpc = "done" /\ failedAt # "none" /\ ~fs0[Destination].exists) =>
        ~fs[Destination].exists

\* C6: a run in which an operation of the copy step raised never ends
\* in success: it ends with an exception leaving run.
C6_FailureSurfaced ==
    /\ outcome = "success" => failedAt = "none"
    /\ (tpc = "done" /\ failedAt # "none") => (outcome = "failed" /\ terror # "none")

C6_Witness ==
    /\ tpc = "done"
    /\ failedAt = "close"
    /\ outcome = "failed"
    /\ terror = "AttributeError"

\* C7: a run invoked with the destination absent in which nothing
\* raised ends in success with the destination holding exactly what the
\* source held, the source and every other file unchanged; the source is
\* local_path/file_name and the destination s3_path/file_name for
\* LocalToS3Task, and the other way round for S3ToLocalTask.
C7_CopyIsExact ==
    (tpc = "done" /\ ~fs0[Destination].exists /\ failedAt = "none") =>
        /\ outcome = "success"
        /\ fs0[Source].exists
        /\ fs[Destination] = Present(fs0[Source].data)
        /\ \A l \in Locs \ {Destination} : fs[l] = fs0[l]

C7_Witness ==
    /\ tpc = "done"
    /\ taskClass = "S3ToLocalTask"
    /\ ~fs0[Destination].exists
    /\ outcome = "success"
    /\ fs[Destination] = Present(<<0, 1>>)
    /\ fs[Source] = Present(<<0, 1>>)

====
